---- MODULE Spec2Model ----
(***************************************************************************)
(* The three ORPHApacket scripts: analyze_json_structure.py,               *)
(* extract_clinical_group_ids.py and make_disorder_type_counts.py.         *)
(*                                                                         *)
(* Python strings are sequences of one-character strings, so that joining, *)
(* splitting and substring tests are computed and not assumed.             *)
(* A JSON value is a record of one shape for every kind:                   *)
(*   t     "dict" | "list" | "str" | "int" | "bool" | "null" | "bad"        *)
(*   n     the number of an int, 1/0 for a bool                            *)
(*   s     the characters of a str                                         *)
(*   keys  the keys of a dict, in insertion order                          *)
(*   items the values of a dict (items[i] belongs to keys[i]) or the       *)
(*         elements of a list                                              *)
(* "bad" is the content of a file that open() or json.load() rejects.      *)
(* None is the JSON null.                                                  *)
(***************************************************************************)
EXTENDS Integers, Sequences, FiniteSets, TLC

\* ------------------------------------------------------------------------
\* Bounds of the model
\* ------------------------------------------------------------------------
\* longest array among the values the extractor is run on
MaxArrLen == 4

\* most files of a directory in a run of one of the scripts
MaxFiles == 3

\* most files of the directory in which the sample caps are reached
MaxSampleFiles == 6

\* most files of a directory that is scanned twice
MaxRerunFiles == 2

\* ------------------------------------------------------------------------
\* JSON values
\* ------------------------------------------------------------------------
JInt(n) == [t |-> "int", n |-> n, s |-> <<>>, keys |-> <<>>, items |-> <<>>]

JStr(s) == [t |-> "str", n |-> 0, s |-> s, keys |-> <<>>, items |-> <<>>]

JBool(b) == [t |-> "bool", n |-> IF b THEN 1 ELSE 0, s |-> <<>>, keys |-> <<>>, items |-> <<>>]

JNull == [t |-> "null", n |-> 0, s |-> <<>>, keys |-> <<>>, items |-> <<>>]

JList(items) == [t |-> "list", n |-> 0, s |-> <<>>, keys |-> <<>>, items |-> items]

JDict(keys, items) == [t |-> "dict", n |-> 0, s |-> <<>>, keys |-> keys, items |-> items]

Unparseable == [t |-> "bad", n |-> 0, s |-> <<>>, keys |-> <<>>, items |-> <<>>]

EmptyDict == JDict(<<>>, <<>>)

Min(a, b) == IF a < b THEN a ELSE b

\* ------------------------------------------------------------------------
\* Python strings and built-ins
\* ------------------------------------------------------------------------
DigitChars == <<"0", "1", "2", "3", "4", "5", "6", "7", "8", "9">>

\* str(i) of a non-negative int, as f"{i}" formats it
RECURSIVE IntToStr(_)
IntToStr(i) ==
    IF i < 10 THEN <<DigitChars[i + 1]>>
    ELSE IntToStr(i \div 10) \o <<DigitChars[(i % 10) + 1]>>

HasChar(s, c) == \E i \in 1..Len(s) : s[i] = c

\* s.count(c)
CountChar(s, c) == Cardinality({i \in 1..Len(s) : s[i] = c})

\* a in b, for two strings
IsSubstring(a, b) == \E i \in 0..(Len(b) - Len(a)) : SubSeq(b, i + 1, i + Len(a)) = a

\* x in list, for a list of strings
Member(x, list) == \E i \in 1..Len(list) : list[i] = x

\* s.split(sep), from position i on; cur is the part being read
RECURSIVE SplitFrom(_, _, _, _, _)
SplitFrom(s, sep, i, cur, acc) ==
    IF i > Len(s) THEN Append(acc, cur)
    ELSE IF s[i] = sep THEN SplitFrom(s, sep, i + 1, <<>>, Append(acc, cur))
    ELSE SplitFrom(s, sep, i + 1, Append(cur, s[i]), acc)

Split(s, sep) == SplitFrom(s, sep, 1, <<>>, <<>>)

\* sep.join(list)
RECURSIVE Join(_, _)
Join(sep, list) ==
    IF Len(list) = 0 THEN <<>>
    ELSE IF Len(list) = 1 THEN list[1]
    ELSE list[1] \o sep \o Join(sep, Tail(list))

\* str(v) of a primitive
PyStr(v) ==
    IF v.t = "str" THEN v.s
    ELSE IF v.t = "int" THEN IntToStr(v.n)
    ELSE IF v.t = "bool" THEN (IF v.n = 1 THEN <<"T", "r", "u", "e">> ELSE <<"F", "a", "l", "s", "e">>)
    ELSE <<"N", "o", "n", "e">>

\* bool(v)
Truthy(v) ==
    IF v.t = "str" THEN v.s /= <<>>
    ELSE IF v.t \in {"int", "bool"} THEN v.n /= 0
    ELSE IF v.t \in {"dict", "list"} THEN Len(v.items) > 0
    ELSE FALSE

HasDictKey(d, k) == \E j \in 1..Len(d.keys) : d.keys[j] = k

\* d[k] of a dict that has k
DictItem(d, k) == d.items[CHOOSE j \in 1..Len(d.keys) : d.keys[j] = k]

\* part in current_obj: key of a dict, element of a list, substring of a str;
\* TypeError on a number, a bool or None
py_in(part, cur) ==
    [raised |-> cur.t \in {"int", "bool", "null"},
     val |-> IF cur.t = "dict" THEN HasDictKey(cur, part)
             ELSE IF cur.t = "list" THEN \E j \in 1..Len(cur.items) : cur.items[j] = JStr(part)
             ELSE IF cur.t = "str" THEN IsSubstring(part, cur.s)
             ELSE FALSE]

\* d.get(key, default): AttributeError on anything but a dict
py_get(d, key, default) ==
    [raised |-> d.t /= "dict",
     val |-> IF d.t = "dict" /\ HasDictKey(d, key) THEN DictItem(d, key) ELSE default]

AllDigits(s) == \A i \in 1..Len(s) : \E d \in 1..10 : DigitChars[d] = s[i]

DigitValue(c) == (CHOOSE d \in 1..10 : DigitChars[d] = c) - 1

RECURSIVE ParseDigits(_)
ParseDigits(s) ==
    IF Len(s) = 0 THEN 0
    ELSE ParseDigits(SubSeq(s, 1, Len(s) - 1)) * 10 + DigitValue(s[Len(s)])

\* int(v): the number of a string of digits (the strings of the model have no
\* sign, blank or underscore), ValueError on any other string, TypeError on a
\* dict, a list or None
py_int(v) ==
    IF v.t = "str"
    THEN IF v.s /= <<>> /\ AllDigits(v.s)
         THEN [raised |-> FALSE, val |-> ParseDigits(v.s)]
         ELSE [raised |-> TRUE, val |-> 0]
    ELSE IF v.t \in {"int", "bool"} THEN [raised |-> FALSE, val |-> v.n]
    ELSE [raised |-> TRUE, val |-> 0]

\* os.path.basename(path)
basename(path) == LET parts == Split(path, "/") IN parts[Len(parts)]

\* ------------------------------------------------------------------------
\* A Python dict from path to count, in insertion order (defaultdict(int))
\* ------------------------------------------------------------------------
HasKey(d, p) == \E i \in 1..Len(d) : d[i].path = p

IndexOf(d, p) == CHOOSE i \in 1..Len(d) : d[i].path = p

Count(d, p) == IF HasKey(d, p) THEN d[IndexOf(d, p)].count ELSE 0

Paths(d) == {d[i].path : i \in 1..Len(d)}

\* d[p] += n
IncrementBy(d, p, n) ==
    IF HasKey(d, p)
    THEN [d EXCEPT ![IndexOf(d, p)].count = @ + n]
    ELSE Append(d, [path |-> p, count |-> n])

\* key_structure[current_path] += 1
Increment(d, p) == IncrementBy(d, p, 1)

\* a defaultdict(list): a function from the paths touched so far to lists
Lookup(f, p) == IF p \in DOMAIN f THEN f[p] ELSE <<>>

Put(f, p, v) == IF p \in DOMAIN f THEN [f EXCEPT ![p] = v] ELSE f @@ (p :> v)

\* sorted(seq, key=..., reverse=True) and most_common(): by count, largest
\* first, equal counts in their earlier order
RECURSIVE SortByCountDesc(_)
SortByCountDesc(seq) ==
    IF Len(seq) <= 1 THEN seq
    ELSE LET rest == SortByCountDesc(SubSeq(seq, 1, Len(seq) - 1))
             x == seq[Len(seq)]
             pos == Cardinality({i \in 1..Len(rest) : rest[i].count >= x.count})
         IN SubSeq(rest, 1, pos) \o <<x>> \o SubSeq(rest, pos + 1, Len(rest))

\* ------------------------------------------------------------------------
\* extract_keys_recursive
\* ------------------------------------------------------------------------
SampleLimit == 3

\* f"{path}.{key}" if path else key, with the separator dropped
current_path_nosep(path, key) == path \o key

current_path(path, key) == IF path /= <<>> THEN path \o <<".">> \o key ELSE key

\* f"{path}[{i}]" with the index dropped
list_path_noindex(path, i) == path \o <<"[", "]">>

list_path(path, i) ==
    IF i < 3 THEN path \o <<"[">> \o IntToStr(i) \o <<"]">>
    ELSE path \o <<"[", ".", ".", ".", "]">>

\* obj[:3] without the cap
list_sample_all(items) == items

list_sample(items) == SubSeq(items, 1, Min(SampleLimit, Len(items)))

RECURSIVE extract_keys_recursive(_, _, _)
RECURSIVE extract_dict_items(_, _, _, _)
RECURSIVE extract_list_items(_, _, _, _)
\* for key, value in obj.items(): from the j-th item on
extract_dict_items(obj, path, key_structure, j) ==
    IF j > Len(obj.keys) THEN key_structure
    ELSE LET cp == current_path(path, obj.keys[j])
             counted == Increment(key_structure, cp)
             walked == extract_keys_recursive(obj.items[j], cp, counted)
         IN extract_dict_items(obj, path, walked, j + 1)

\* for i, item in enumerate(obj[:3]): from the j-th sampled item on (i = j - 1)
extract_list_items(sampled, path, key_structure, j) ==
    IF j > Len(sampled) THEN key_structure
    ELSE LET walked == extract_keys_recursive(sampled[j], list_path(path, j - 1), key_structure)
         IN extract_list_items(sampled, path, walked, j + 1)

extract_keys_recursive(obj, path, key_structure) ==
    IF obj.t = "dict" THEN extract_dict_items(obj, path, key_structure, 1)
    ELSE IF obj.t = "list"
         THEN IF Len(obj.items) > 0
              THEN extract_list_items(list_sample(obj.items), path, key_structure, 1)
              ELSE key_structure
         ELSE key_structure

\* ------------------------------------------------------------------------
\* Files
\* ------------------------------------------------------------------------
\* an output file: whether it exists and its lines, a line being its cells
NoFile == [exists |-> FALSE, lines |-> <<>>]

\* what an earlier run, on another directory, left behind
StaleFile == [exists |-> TRUE, lines |-> << <<<<"o", "l", "d">>>> >>]

\* open(path, "w") ... write: the lines replace what the file held
write_file_append(old, lines) == [exists |-> TRUE, lines |-> old.lines \o lines]

write_file(old, lines) == [exists |-> TRUE, lines |-> lines]

OutputNames == {"analysis", "summary", "clinical", "counts_csv", "counts_md"}

NoOutputs == [f \in OutputNames |-> NoFile]

StaleOutputs == [f \in OutputNames |-> StaleFile]

\* os.path.join(json_directory, "ORPHApacket_<i>.json"), as glob returns it
FilePath(i) == <<"j", "s", "o", "n", "/", "O", "R", "P", "H", "A", "p", "a", "c", "k", "e", "t", "_">> \o IntToStr(i) \o <<".", "j", "s", "o", "n">>

\* ------------------------------------------------------------------------
\* analyze_json_structure.py
\* ------------------------------------------------------------------------
ExampleCap == 3

SampleCap == 5

Raised == [raised |-> TRUE, obj |-> JNull]

\* the navigation of analyze_json_files from current_obj along path_parts,
\* from the j-th part on; a break ends it where it stands
RECURSIVE navigate(_, _, _)
navigate(cur, parts, j) ==
    IF j > Len(parts) THEN [raised |-> FALSE, obj |-> cur]
    ELSE LET part == parts[j] IN
      IF HasChar(part, "[")
      THEN LET key_name == Split(part, "[")[1]
               found == py_in(key_name, cur)
           IN IF found.raised THEN Raised
              ELSE IF ~found.val THEN navigate(cur, parts, j + 1)
              ELSE IF cur.t /= "dict" THEN Raised
              ELSE LET v == DictItem(cur, key_name) IN
                   IF v.t /= "list" THEN navigate(cur, parts, j + 1)
                   ELSE IF Len(v.items) > 0 THEN navigate(v.items[1], parts, j + 1)
                   ELSE [raised |-> FALSE, obj |-> cur]
      ELSE LET found == py_in(part, cur)
           IN IF found.raised THEN Raised
              ELSE IF ~found.val THEN [raised |-> FALSE, obj |-> cur]
              ELSE IF cur.t /= "dict" THEN Raised
              ELSE navigate(DictItem(cur, part), parts, j + 1)

\* all_key_structures[key_path] += count
add_file_count_frequency(all_keys, key_path, count) == IncrementBy(all_keys, key_path, count)

\* all_key_structures[key_path] += 1
add_file_count(all_keys, key_path, count) == Increment(all_keys, key_path)

\* if len(file_examples[key_path]) < 3: append the file's base name
record_example(examples, json_file) ==
    IF Len(examples) < ExampleCap THEN Append(examples, basename(json_file)) ELSE examples

\* the sample step without the cap of 5
record_sample_uncapped(samples, doc, key_path) ==
    LET nav == navigate(doc, Split(key_path, "."), 1) IN
    IF ~nav.raised /\ nav.obj.t \notin {"dict", "list"} /\ ~Member(PyStr(nav.obj), samples)
    THEN Append(samples, PyStr(nav.obj))
    ELSE samples

\* if len(sample_values[key_path]) < 5: navigate, and store str(value) of a
\* primitive that is not stored yet; an exception is swallowed
record_sample(samples, doc, key_path) ==
    IF Len(samples) < SampleCap
    THEN LET nav == navigate(doc, Split(key_path, "."), 1) IN
         IF ~nav.raised /\ nav.obj.t \notin {"dict", "list"} /\ ~Member(PyStr(nav.obj), samples)
         THEN Append(samples, PyStr(nav.obj))
         ELSE samples
    ELSE samples

\* for key_path, count in file_key_structure.items(): from the j-th item on
RECURSIVE fold_file(_, _, _, _, _)
fold_file(acc, fks, j, doc, json_file) ==
    IF j > Len(fks) THEN acc
    ELSE LET key_path == fks[j].path
             next == [acc EXCEPT
                        !.all_keys = add_file_count(@, key_path, fks[j].count),
                        !.examples = Put(@, key_path, record_example(Lookup(@, key_path), json_file)),
                        !.samples = Put(@, key_path, record_sample(Lookup(@, key_path), doc, key_path))]
         IN fold_file(next, fks, j + 1, doc, json_file)

\* except Exception as e: print(f"Error processing {json_file}: ..."); continue
analyze_except(acc, json_file) == [acc EXCEPT !.log = Append(@, json_file)]

\* one iteration of the loop of analyze_json_files
analyze_file(acc, json_file, content) ==
    IF content.t = "bad" THEN analyze_except(acc, json_file)
    ELSE LET fks == extract_keys_recursive(content, <<>>, <<>>)
             folded == fold_file(acc, fks, 1, content, json_file)
         IN [folded EXCEPT !.doc = content, !.fks = fks, !.processed = @ + 1]

\* round(count / total_files * 100, 2), in hundredths (half to even)
percentage(count, total) ==
    LET q == (count * 10000) \div total
        r == (count * 10000) % total
    IN IF 2 * r < total THEN q
       ELSE IF 2 * r > total THEN q + 1
       ELSE IF q % 2 = 0 THEN q ELSE q + 1

\* the text of a float with at most two decimals: 100.0, 33.33, 12.5
percentage_text(h) ==
    IntToStr(h \div 100) \o <<".">> \o
      (IF h % 10 = 0 THEN IntToStr((h % 100) \div 10)
       ELSE IntToStr((h % 100) \div 10) \o IntToStr(h % 10))

AnalysisHeader ==
    <<<<"K", "e", "y", "_", "P", "a", "t", "h">>, <<"C", "o", "u", "n", "t">>, <<"P", "e", "r", "c", "e", "n", "t", "a", "g", "e">>, <<"D", "e", "p", "t", "h">>, <<"S", "a", "m", "p", "l", "e", "_", "V", "a", "l", "u", "e", "s">>, <<"E", "x", "a", "m", "p", "l", "e", "_", "F", "i", "l", "e", "s">>>>

SummaryHeader == <<<<"D", "e", "p", "t", "h", "_", "L", "e", "v", "e", "l">>, <<"N", "u", "m", "b", "e", "r", "_", "o", "f", "_", "K", "e", "y", "s">>, <<"S", "a", "m", "p", "l", "e", "_", "K", "e", "y", "s">>>>

\* what pandas writes for a frame without rows or columns: one empty field
EmptyFrame == << << <<>> >> >>

\* csv_data of export_to_csv, sorted by Count, largest first
csv_data(all_keys, samples, examples, total_files) ==
    SortByCountDesc(
      [i \in 1..Len(all_keys) |->
         [path |-> all_keys[i].path,
          count |-> all_keys[i].count,
          pct |-> percentage(all_keys[i].count, total_files),
          depth |-> CountChar(all_keys[i].path, "."),
          samples |-> Join(<<";", " ">>, SubSeq(Lookup(samples, all_keys[i].path), 1,
                                Min(5, Len(Lookup(samples, all_keys[i].path))))),
          examples |-> Join(<<";", " ">>, SubSeq(Lookup(examples, all_keys[i].path), 1,
                                Min(3, Len(Lookup(examples, all_keys[i].path)))))]])

analysis_lines(rows) ==
    IF Len(rows) = 0 THEN EmptyFrame
    ELSE <<AnalysisHeader>> \o
         [i \in 1..Len(rows) |->
            <<rows[i].path, IntToStr(rows[i].count), percentage_text(rows[i].pct),
              IntToStr(rows[i].depth), rows[i].samples, rows[i].examples>>]

\* the keys of one depth, in the order of csv_data
RECURSIVE keys_of_depth(_, _)
keys_of_depth(rows, depth) ==
    IF Len(rows) = 0 THEN <<>>
    ELSE IF rows[1].depth = depth THEN <<rows[1].path>> \o keys_of_depth(Tail(rows), depth)
    ELSE keys_of_depth(Tail(rows), depth)

\* for depth in sorted(depth_summary.keys()): from depth d on
RECURSIVE summary_from(_, _, _)
summary_from(rows, d, maxd) ==
    IF d > maxd THEN <<>>
    ELSE LET ks == keys_of_depth(rows, d) IN
         (IF Len(ks) = 0 THEN <<>>
          ELSE << <<IntToStr(d), IntToStr(Len(ks)), Join(<<";", " ">>, SubSeq(ks, 1, Min(5, Len(ks))))>> >>)
         \o summary_from(rows, d + 1, maxd)

summary_lines(rows) ==
    IF Len(rows) = 0 THEN EmptyFrame
    ELSE LET maxd == CHOOSE d \in {rows[i].depth : i \in 1..Len(rows)} :
                       \A i \in 1..Len(rows) : rows[i].depth <= d
         IN <<SummaryHeader>> \o summary_from(rows, 0, maxd)

\* ------------------------------------------------------------------------
\* The fixed-path accessors of the two extraction scripts
\* ------------------------------------------------------------------------
KOrphapacket == <<"O", "r", "p", "h", "a", "p", "a", "c", "k", "e", "t">>

KDisorderType == <<"D", "i", "s", "o", "r", "d", "e", "r", "T", "y", "p", "e">>

KValue == <<"v", "a", "l", "u", "e">>

KORPHAcode == <<"O", "R", "P", "H", "A", "c", "o", "d", "e">>

KLabel == <<"L", "a", "b", "e", "l">>

ClinicalGroup == JStr(<<"C", "l", "i", "n", "i", "c", "a", "l", " ", "g", "r", "o", "u", "p">>)

\* data.get("Orphapacket", {})
orphapacket_of(doc) == py_get(doc, KOrphapacket, EmptyDict)

\* data.get("Orphapacket", {}).get("DisorderType", {}).get("value")
disorder_type_of(doc) ==
    LET a == orphapacket_of(doc) IN
    IF a.raised THEN a
    ELSE LET b == py_get(a.val, KDisorderType, EmptyDict) IN
         IF b.raised THEN b ELSE py_get(b.val, KValue, JNull)

\* ------------------------------------------------------------------------
\* extract_clinical_group_ids.py
\* ------------------------------------------------------------------------
\* except Exception as exc, with the failed file counted as processed
clinical_except_counted(acc, path) ==
    [acc EXCEPT !.log = Append(@, path), !.processed = @ + 1]

\* except Exception as exc: print(f"Warning: failed to parse {path}: {exc}")
clinical_except(acc, path) == [acc EXCEPT !.log = Append(@, path)]

is_clinical_group(disorder_type) == disorder_type = ClinicalGroup

\* one iteration of the loop of extract_clinical_group_ids
clinical_file(acc, path, content) ==
    IF content.t = "bad" THEN clinical_except(acc, path)
    ELSE LET dt == disorder_type_of(content) IN
         IF dt.raised THEN clinical_except([acc EXCEPT !.doc = content], path)
         ELSE LET packet == orphapacket_of(content).val
                  orpha_code == py_get(packet, KORPHAcode, JNull).val
                  label == py_get(packet, KLabel, JNull).val
              IN [acc EXCEPT
                    !.doc = content,
                    !.entries = IF is_clinical_group(dt.val) /\ Truthy(orpha_code) /\ Truthy(label)
                                THEN Append(@, [ORPHAcode |-> orpha_code, Label |-> label])
                                ELSE @,
                    !.processed = @ + 1]

\* sorted(entries, key=lambda x: int(x["ORPHAcode"])): smallest first, equal
\* codes in their earlier order; every code of entries converts
RECURSIVE sort_entries(_)
sort_entries(entries) ==
    IF Len(entries) <= 1 THEN entries
    ELSE LET rest == sort_entries(SubSeq(entries, 1, Len(entries) - 1))
             x == entries[Len(entries)]
             pos == Cardinality({i \in 1..Len(rest) :
                       py_int(rest[i].ORPHAcode).val <= py_int(x.ORPHAcode).val})
         IN SubSeq(rest, 1, pos) \o <<x>> \o SubSeq(rest, pos + 1, Len(rest))

ClinicalHeader == <<<<"O", "R", "P", "H", "A", "c", "o", "d", "e">>, <<"L", "a", "b", "e", "l">>>>

\* write_csv: the file is opened for writing and the header written; int() of
\* a code that is no number raises out of sorted() and nothing else is written
clinical_write_csv(old, entries) ==
    LET fails == \E i \in 1..Len(entries) : py_int(entries[i].ORPHAcode).raised IN
    [raised |-> fails,
     file |-> IF fails THEN write_file(old, <<ClinicalHeader>>)
              ELSE write_file(old, <<ClinicalHeader>> \o
                     [i \in 1..Len(entries) |->
                        <<PyStr(sort_entries(entries)[i].ORPHAcode),
                          PyStr(sort_entries(entries)[i].Label)>>])]

\* ------------------------------------------------------------------------
\* make_disorder_type_counts.py; the Counter is kept like the dict of counts,
\* its field path holding the DisorderType value
\* ------------------------------------------------------------------------
\* except Exception as exc: print(f"Warning: failed to parse {path}: {exc}")
counts_except(acc, path) == [acc EXCEPT !.log = Append(@, path)]

\* one iteration of the loop of collect_disorder_type_counts; a dict or a list
\* as the value cannot be a key of the Counter (TypeError)
counts_file(acc, path, content) ==
    IF content.t = "bad" THEN counts_except(acc, path)
    ELSE LET dt == disorder_type_of(content) IN
         IF dt.raised THEN counts_except([acc EXCEPT !.doc = content], path)
         ELSE IF Truthy(dt.val) /\ dt.val.t \in {"dict", "list"}
              THEN counts_except([acc EXCEPT !.doc = content], path)
         ELSE [acc EXCEPT
                 !.doc = content,
                 !.counts = IF Truthy(dt.val) THEN IncrementBy(@, dt.val, 1) ELSE @,
                 !.processed = @ + 1]

\* value.replace('"', '""')
RECURSIVE double_quotes(_)
double_quotes(s) ==
    IF Len(s) = 0 THEN <<>>
    ELSE (IF s[1] = "\"" THEN <<"\"", "\"">> ELSE <<s[1]>>) \o double_quotes(Tail(s))

safe_value(value) ==
    IF HasChar(value, ",") THEN <<"\"">> \o double_quotes(value) \o <<"\"">> ELSE value

\* "," in value raises for a value that is no string, before a file is opened
counts_write_raises(counter) == \E i \in 1..Len(counter) : counter[i].path.t /= "str"

\* the lines of disorder_type_counts.csv
counts_csv_lines(counter) ==
    << <<<<"D", "i", "s", "o", "r", "d", "e", "r", "T", "y", "p", "e", "_", "V", "a", "l", "u", "e", ",", "C", "o", "u", "n", "t">>>> >> \o
    [i \in 1..Len(counter) |->
       <<safe_value(SortByCountDesc(counter)[i].path.s) \o <<",">> \o
         IntToStr(SortByCountDesc(counter)[i].count)>>]

\* the lines of disorder_type_counts.md
counts_md_lines(counter) ==
    << <<<<"|", " ", "D", "i", "s", "o", "r", "d", "e", "r", "T", "y", "p", "e", " ", "V", "a", "l", "u", "e", " ", "|", " ", "C", "o", "u", "n", "t", " ", "|">>>>, <<<<"|", "-", "-", "-", "|", "-", "-", "-", ":">>>> >> \o
    [i \in 1..Len(counter) |->
       <<<<"|", " ">> \o SortByCountDesc(counter)[i].path.s \o <<" ", "|", " ">> \o
         IntToStr(SortByCountDesc(counter)[i].count) \o <<" ", "|">>>>]

\* the exit status of main of extract_clinical_group_ids.py: sys.exit(1) when
\* no entry was found, 1 as well when write_csv raised (an uncaught
\* exception), 0 when main returns
clinical_exit(entries, write_raised) ==
    IF Len(entries) = 0 THEN 1 ELSE IF write_raised THEN 1 ELSE 0

\* main of make_disorder_type_counts.py without its sys.exit(1)
counts_exit_never_fails(counter, write_raised) == IF write_raised THEN 1 ELSE 0

\* the exit status of main of make_disorder_type_counts.py
counts_exit(counter, write_raised) ==
    IF Len(counter) = 0 THEN 1 ELSE IF write_raised THEN 1 ELSE 0

\* the exit status of main of analyze_json_structure.py: main returns, also
\* when the directory is missing or no key path was found
analyze_exit(all_keys) == 0

\* ------------------------------------------------------------------------
\* The inputs: JSON values and directories
\* ------------------------------------------------------------------------
Chr(c) == <<c>>

D1(k, v) == JDict(<<k>>, <<v>>)

SeqsUpTo(S, n) == UNION {[1..m -> S] : m \in 0..n}

\* root keys: plain ones, one holding the separator, the empty key, one
\* that reads like a sampled index
RootKeys == {Chr("a"), Chr("c"), <<"a", ".", "b">>, <<>>, <<"c", "[", "0", "]">>}

ListElems == {JInt(1), D1(Chr("b"), JInt(1))}

LongList == JList([i \in 1..MaxArrLen |-> D1(Chr("b"), JInt(i))])

SmallValues ==
    {JInt(1), D1(Chr("b"), JInt(1)), D1(Chr("a"), D1(Chr("b"), JInt(1))),
     JList(<<D1(Chr("b"), JInt(1))>>), JList(<<LongList, JInt(1)>>),
     D1(Chr("b"), LongList)}

MidValues == SmallValues \cup {JList(l) : l \in SeqsUpTo(ListElems, MaxArrLen)}

\* {"a": {"b": 1}, "c": [1, 2, 3, 4]}
ExampleDoc ==
    JDict(<<Chr("a"), Chr("c")>>,
          <<D1(Chr("b"), JInt(1)), JList(<<JInt(1), JInt(2), JInt(3), JInt(4)>>)>>)

ExtractInputs ==
    {ExampleDoc}
    \cup {D1(k, v) : k \in RootKeys, v \in MidValues}
    \cup UNION {{JDict(<<kk[1], kk[2]>>, <<v1, v2>>) : v1 \in MidValues, v2 \in SmallValues} :
                 kk \in {pair \in RootKeys \X RootKeys : pair[1] /= pair[2]}}
    \cup {JList(l) : l \in SeqsUpTo(SmallValues, 2)}
    \cup {JInt(1), JNull}

\* what the files of a directory given to analyze_json_structure.py may hold
AnalyzePool ==
    {D1(Chr("a"), JInt(1)),
     D1(Chr("a"), JStr(Chr("1"))),
     D1(Chr("c"), JList(<<D1(Chr("k"), JInt(1)), D1(Chr("k"), JInt(2))>>)),
     D1(Chr("c"), JList(<<JStr(Chr("x")), D1(Chr("k"), JInt(2))>>)),
     D1(Chr("c"), JList(<<JInt(5), D1(Chr("k"), JInt(2))>>)),
     JDict(<<<<"a", ".", "b">>, Chr("a")>>, <<JInt(1), D1(Chr("b"), JInt(2))>>),
     JList(<<D1(Chr("k"), JInt(1))>>),
     Unparseable}

\* files with one leaf a of many values, for the caps of the sample lists
SamplePool ==
    {D1(Chr("a"), v) : v \in {JInt(1), JInt(2), JInt(3), JStr(Chr("x")), JBool(TRUE), JNull}}
    \cup {D1(Chr("b"), JInt(1))}

Packet(keys, items) == D1(KOrphapacket, JDict(keys, items))

DisorderTypeOf(v) == D1(KValue, JStr(v))

FullPacket(dt, code, label) ==
    Packet(<<KDisorderType, KORPHAcode, KLabel>>, <<dt, JStr(code), JStr(label)>>)

\* what the files of a directory given to the two extraction scripts may hold
PacketPool ==
    {FullPacket(D1(KValue, ClinicalGroup), <<"5">>, <<"E">>),
     FullPacket(D1(KValue, ClinicalGroup), <<"1", "2">>, <<"T">>),
     FullPacket(D1(KValue, ClinicalGroup), <<"x">>, <<"X">>),
     Packet(<<KDisorderType, KLabel>>, <<D1(KValue, ClinicalGroup), JStr(<<"N">>)>>),
     Packet(<<KDisorderType, KORPHAcode>>, <<D1(KValue, ClinicalGroup), JStr(<<"7">>)>>),
     FullPacket(DisorderTypeOf(<<"D", "i", "s", "e", "a", "s", "e">>), <<"3">>, <<"D">>),
     Packet(<<KORPHAcode, KLabel>>, <<JStr(<<"4">>), JStr(<<"U">>)>>),
     FullPacket(JStr(<<"D", "i", "s", "e", "a", "s", "e">>), <<"6">>, <<"S">>),
     FullPacket(D1(KValue, JInt(5)), <<"8">>, <<"I">>),
     Unparseable}

Scripts == {"analyze", "clinical", "counts"}

PoolOf(s) == IF s = "analyze" THEN AnalyzePool ELSE PacketPool

RerunPoolOf(s) ==
    IF s = "analyze"
    THEN {D1(Chr("a"), JInt(1)), D1(Chr("a"), JStr(Chr("x"))),
          D1(Chr("c"), JList(<<D1(Chr("k"), JInt(1)), D1(Chr("k"), JInt(2))>>)),
          Unparseable}
    ELSE {FullPacket(D1(KValue, ClinicalGroup), <<"5">>, <<"E">>),
          FullPacket(D1(KValue, ClinicalGroup), <<"1", "2">>, <<"T">>),
          FullPacket(D1(KValue, ClinicalGroup), <<"x">>, <<"X">>),
          FullPacket(DisorderTypeOf(<<"D", "i", "s", "e", "a", "s", "e">>), <<"3">>, <<"D">>),
          FullPacket(D1(KValue, JInt(5)), <<"8">>, <<"I">>),
          Packet(<<KORPHAcode, KLabel>>, <<JStr(<<"4">>), JStr(<<"U">>)>>),
          Unparseable}

\* the files glob returns: the path of each, and what the file may hold (one
\* content when the directory is known)
KnownDirectory(c) == [i \in 1..Len(c) |-> [path |-> FilePath(i), contents |-> {c[i]}]]

OpenDirectory(pool, m) == [i \in 1..m |-> [path |-> FilePath(i), contents |-> pool]]

\* ------------------------------------------------------------------------
\* State
\* ------------------------------------------------------------------------
VARIABLES
    script,                 \* which script runs
    pc,                     \* "start", "loop", "done"; "call", "returned" for a bare call
    run,                    \* 1, or 2 in the second run over the same directory
    dir_exists,             \* whether json_directory exists
    files,                  \* what glob returned, in its order
    idx,                    \* how many files the loop has taken
    processed,
    data,                   \* the last document json.load returned
    file_key_structure,     \* the accumulator of the last extract_keys_recursive
    all_key_structures,
    sample_values,
    file_examples,
    clinical_group_entries,
    counts,
    log,                    \* the files named in the warnings printed
    out,                    \* the output files
    exit_code,              \* -1 while the script runs
    prev_files,             \* the first run's enumeration
    prev_out                \* the output files after the first run

vars ==
    <<script, pc, run, dir_exists, files, idx, processed, data, file_key_structure,
      all_key_structures, sample_values, file_examples, clinical_group_entries, counts,
      log, out, exit_code, prev_files, prev_out>>

Acc ==
    [all_keys |-> all_key_structures, samples |-> sample_values, examples |-> file_examples,
     entries |-> clinical_group_entries, counts |-> counts, processed |-> processed,
     log |-> log, doc |-> data, fks |-> file_key_structure]

SetAcc(r) ==
    /\ all_key_structures' = r.all_keys
    /\ sample_values' = r.samples
    /\ file_examples' = r.examples
    /\ clinical_group_entries' = r.entries
    /\ counts' = r.counts
    /\ processed' = r.processed
    /\ log' = r.log
    /\ data' = r.doc
    /\ file_key_structure' = r.fks

\* the state of a fresh process
Fresh ==
    /\ idx = 0
    /\ processed = 0
    /\ data = JNull
    /\ file_key_structure = <<>>
    /\ all_key_structures = <<>>
    /\ sample_values = <<>>
    /\ file_examples = <<>>
    /\ clinical_group_entries = <<>>
    /\ counts = <<>>
    /\ log = <<>>
    /\ exit_code = -1

Init ==
    /\ script \in Scripts
    /\ pc = "start"
    /\ run = 1
    /\ dir_exists \in BOOLEAN
    /\ \E m \in 0..MaxFiles : \E c \in [1..m -> PoolOf(script)] :
          files = IF dir_exists THEN KnownDirectory(c) ELSE <<>>
    /\ Fresh
    /\ out = NoOutputs
    /\ prev_files = <<>>
    /\ prev_out = NoOutputs

\* analyze_json_files at the head of its loop
InitSamples ==
    /\ script = "analyze"
    /\ pc = "loop"
    /\ run = 1
    /\ dir_exists = TRUE
    /\ files \in {OpenDirectory(SamplePool, m) : m \in 0..MaxSampleFiles}
    /\ Fresh
    /\ out = NoOutputs
    /\ prev_files = <<>>
    /\ prev_out = NoOutputs

InitRerun ==
    /\ script \in Scripts
    /\ pc = "start"
    /\ run = 1
    /\ dir_exists = TRUE
    /\ \E m \in 0..MaxRerunFiles : \E c \in [1..m -> RerunPoolOf(script)] :
          files = KnownDirectory(c)
    /\ Fresh
    /\ out \in {NoOutputs, StaleOutputs}
    /\ prev_files = <<>>
    /\ prev_out = NoOutputs

InitExtract ==
    /\ script = "extract"
    /\ pc = "call"
    /\ run = 1
    /\ dir_exists = TRUE
    /\ files = <<>>
    /\ idx = 0
    /\ processed = 0
    /\ data \in ExtractInputs
    /\ file_key_structure = <<>>
    /\ all_key_structures = <<>>
    /\ sample_values = <<>>
    /\ file_examples = <<>>
    /\ clinical_group_entries = <<>>
    /\ counts = <<>>
    /\ log = <<>>
    /\ exit_code = -1
    /\ out = NoOutputs
    /\ prev_files = <<>>
    /\ prev_out = NoOutputs

\* ------------------------------------------------------------------------
\* Actions
\* ------------------------------------------------------------------------
\* file_key_structure = extract_keys_recursive(data)
Extract ==
    /\ pc = "call"
    /\ file_key_structure' = extract_keys_recursive(data, <<>>, <<>>)
    /\ pc' = "returned"
    /\ UNCHANGED <<script, run, dir_exists, files, idx, processed, data, all_key_structures,
                   sample_values, file_examples, clinical_group_entries, counts, log, out,
                   exit_code, prev_files, prev_out>>

\* main of analyze_json_structure.py up to the loop: a missing directory is
\* reported and main returns
AnalyzeMain ==
    /\ script = "analyze" /\ pc = "start"
    /\ pc' = IF dir_exists THEN "loop" ELSE "done"
    /\ exit_code' = IF dir_exists THEN exit_code ELSE analyze_exit(all_key_structures)
    /\ UNCHANGED <<script, run, dir_exists, files, idx, processed, data, file_key_structure,
                   all_key_structures, sample_values, file_examples, clinical_group_entries,
                   counts, log, out, prev_files, prev_out>>

\* for json_file in json_files: one iteration
AnalyzeFile ==
    /\ script = "analyze" /\ pc = "loop" /\ idx < Len(files)
    /\ \E content \in files[idx + 1].contents :
          SetAcc(analyze_file(Acc, files[idx + 1].path, content))
    /\ idx' = idx + 1
    /\ UNCHANGED <<script, pc, run, dir_exists, files, out, exit_code, prev_files, prev_out>>

\* after the loop: generate_structure_report (prints only), export_to_csv
\* and the top-10 print; main returns
AnalyzeExport ==
    /\ script = "analyze" /\ pc = "loop" /\ idx = Len(files)
    /\ LET rows == csv_data(all_key_structures, sample_values, file_examples, processed) IN
         out' = [out EXCEPT !.analysis = write_file(@, analysis_lines(rows)),
                            !.summary = write_file(@, summary_lines(rows))]
    /\ pc' = "done"
    /\ exit_code' = analyze_exit(all_key_structures)
    /\ UNCHANGED <<script, run, dir_exists, files, idx, processed, data, file_key_structure,
                   all_key_structures, sample_values, file_examples, clinical_group_entries,
                   counts, log, prev_files, prev_out>>

\* extract_clinical_group_ids up to the loop: files = glob.glob(json_pattern)
ClinicalMain ==
    /\ script = "clinical" /\ pc = "start"
    /\ pc' = "loop"
    /\ UNCHANGED <<script, run, dir_exists, files, idx, processed, data, file_key_structure,
                   all_key_structures, sample_values, file_examples, clinical_group_entries,
                   counts, log, out, exit_code, prev_files, prev_out>>

\* for path in files: one iteration
ClinicalFile ==
    /\ script = "clinical" /\ pc = "loop" /\ idx < Len(files)
    /\ \E content \in files[idx + 1].contents :
          SetAcc(clinical_file(Acc, files[idx + 1].path, content))
    /\ idx' = idx + 1
    /\ UNCHANGED <<script, pc, run, dir_exists, files, out, exit_code, prev_files, prev_out>>

\* main after extract_clinical_group_ids returned: sys.exit(1) without
\* entries, else write_csv
ClinicalWrite ==
    /\ script = "clinical" /\ pc = "loop" /\ idx = Len(files)
    /\ LET w == clinical_write_csv(out.clinical, clinical_group_entries) IN
         /\ out' = IF Len(clinical_group_entries) = 0 THEN out
                   ELSE [out EXCEPT !.clinical = w.file]
         /\ exit_code' = clinical_exit(clinical_group_entries, w.raised)
    /\ pc' = "done"
    /\ UNCHANGED <<script, run, dir_exists, files, idx, processed, data, file_key_structure,
                   all_key_structures, sample_values, file_examples, clinical_group_entries,
                   counts, log, prev_files, prev_out>>

\* collect_disorder_type_counts up to the loop: files = glob.glob(json_pattern)
CountsMain ==
    /\ script = "counts" /\ pc = "start"
    /\ pc' = "loop"
    /\ UNCHANGED <<script, run, dir_exists, files, idx, processed, data, file_key_structure,
                   all_key_structures, sample_values, file_examples, clinical_group_entries,
                   counts, log, out, exit_code, prev_files, prev_out>>

\* for path in files: one iteration
CountsFile ==
    /\ script = "counts" /\ pc = "loop" /\ idx < Len(files)
    /\ \E content \in files[idx + 1].contents :
          SetAcc(counts_file(Acc, files[idx + 1].path, content))
    /\ idx' = idx + 1
    /\ UNCHANGED <<script, pc, run, dir_exists, files, out, exit_code, prev_files, prev_out>>

\* main after collect_disorder_type_counts returned: sys.exit(1) without
\* counts, else write_csv and write_markdown
CountsWrite ==
    /\ script = "counts" /\ pc = "loop" /\ idx = Len(files)
    /\ LET fails == counts_write_raises(counts) IN
         /\ out' = IF Len(counts) = 0 \/ fails THEN out
                   ELSE [out EXCEPT !.counts_csv = write_file(@, counts_csv_lines(counts)),
                                    !.counts_md = write_file(@, counts_md_lines(counts))]
         /\ exit_code' = counts_exit(counts, fails)
    /\ pc' = "done"
    /\ UNCHANGED <<script, run, dir_exists, files, idx, processed, data, file_key_structure,
                   all_key_structures, sample_values, file_examples, clinical_group_entries,
                   counts, log, prev_files, prev_out>>

\* the same script is started again on the unchanged directory: a new
\* process, whose glob may return the files in any order
Rerun ==
    /\ pc = "done" /\ run = 1
    /\ run' = 2
    /\ prev_files' = files
    /\ prev_out' = out
    /\ \E p \in Permutations(1..Len(files)) : files' = [i \in 1..Len(files) |-> files[p[i]]]
    /\ pc' = "start"
    /\ idx' = 0
    /\ processed' = 0
    /\ data' = JNull
    /\ file_key_structure' = <<>>
    /\ all_key_structures' = <<>>
    /\ sample_values' = <<>>
    /\ file_examples' = <<>>
    /\ clinical_group_entries' = <<>>
    /\ counts' = <<>>
    /\ log' = <<>>
    /\ exit_code' = -1
    /\ UNCHANGED <<script, dir_exists, out>>

Next ==
    \/ AnalyzeMain \/ AnalyzeFile \/ AnalyzeExport
    \/ ClinicalMain \/ ClinicalFile \/ ClinicalWrite
    \/ CountsMain \/ CountsFile \/ CountsWrite

NextSamples == AnalyzeFile

NextRerun == Next \/ Rerun

NextExtract == Extract

\* a run of one of the three scripts over a known directory
Spec == Init /\ [][Next]_vars

\* the loop of analyze_json_files over files with one leaf
SpecSamples == InitSamples /\ [][NextSamples]_vars

\* two runs of a script over the same directory
SpecRerun == InitRerun /\ [][NextRerun]_vars

\* one call of extract_keys_recursive
SpecExtract == InitExtract /\ [][NextExtract]_vars

\* ------------------------------------------------------------------------
\* Claims about extract_keys_recursive (SpecExtract)
\* ------------------------------------------------------------------------
PA == Chr("a")

PAB == <<"a", ".", "b">>

PC == Chr("c")

PCi(i) == <<"c", "[", DigitChars[i + 1], "]">>

IsPrimitive(v) == v.t \in {"int", "str", "bool", "null"}

\* the root object has key c, holding an array of more than three primitives
HoldsPrimArray(v) ==
    /\ v.t = "dict"
    /\ \E j \in 1..Len(v.keys) :
          /\ v.keys[j] = PC
          /\ v.items[j].t = "list"
          /\ Len(v.items[j].items) > 3
          /\ \A e \in 1..Len(v.items[j].items) : IsPrimitive(v.items[j].items[e])

RootKeyCount(v, k) == Cardinality({j \in 1..Len(v.keys) : v.keys[j] = k})

\* C1 as stated: an array c of more than three primitives yields the entries
\* c[0], c[1], c[2] with count 1 each and no c[3]; the example document yields
\* exactly a, a.b, c, c[0], c[1], c[2], each with count 1.
C1_Original ==
    pc = "returned" =>
      /\ HoldsPrimArray(data) =>
            /\ HasKey(file_key_structure, PC)
            /\ \A i \in 0..2 : Count(file_key_structure, PCi(i)) = 1
            /\ ~HasKey(file_key_structure, PCi(3))
      /\ data = ExampleDoc =>
            /\ Paths(file_key_structure) = {PA, PAB, PC, PCi(0), PCi(1), PCi(2)}
            /\ \A p \in Paths(file_key_structure) : Count(file_key_structure, p) = 1

\* C1 amended: the primitives of an array add no entry. An array c of more than
\* three primitives yields the entry for c and no entry c[0], c[1], c[2], c[3]
\* (other than for an object key of that literal name); the example document
\* yields exactly a, a.b, c, in that order, each with count 1.
C1_PrimitiveArrayAddsNoEntry ==
    pc = "returned" =>
      /\ HoldsPrimArray(data) =>
            /\ Count(file_key_structure, PC) = RootKeyCount(data, PC)
            /\ \A i \in 0..3 : Count(file_key_structure, PCi(i)) = RootKeyCount(data, PCi(i))
      /\ data = ExampleDoc =>
            file_key_structure = << [path |-> PA, count |-> 1], [path |-> PAB, count |-> 1],
                                    [path |-> PC, count |-> 1] >>

C1_Witness == pc = "returned" /\ data = ExampleDoc /\ Len(file_key_structure) = 3

\* the value with every array, at any depth, cut to its first three elements
RECURSIVE Truncate(_)
Truncate(v) ==
    IF v.t = "dict" THEN [v EXCEPT !.items = [j \in 1..Len(v.items) |-> Truncate(v.items[j])]]
    ELSE IF v.t = "list"
         THEN [v EXCEPT !.items = [j \in 1..Min(3, Len(v.items)) |-> Truncate(v.items[j])]]
         ELSE v

\* some array at nesting depth 2 or more is longer than 3
RECURSIVE HasLongArray(_, _)
HasLongArray(v, depth) ==
    \/ v.t = "list" /\ Len(v.items) > 3 /\ depth >= 2
    \/ v.t \in {"dict", "list"} /\ \E j \in 1..Len(v.items) : HasLongArray(v.items[j], depth + 1)

\* C2: the accumulator of a value is the accumulator of the same value with
\* every array, at any depth, truncated to its first three elements.
C2_TruncationInvariant ==
    pc = "returned" => file_key_structure = extract_keys_recursive(Truncate(data), <<>>, <<>>)

C2_Witness ==
    /\ pc = "returned"
    /\ HasLongArray(data, 0)
    /\ \E i \in 1..Len(file_key_structure) : HasChar(file_key_structure[i].path, "[")

\* The reachable key locations of a value: a location is the sequence of steps
\* from the root, a step being an object key (idx = -1) or a sampled index.
KeyStep(k) == [key |-> k, idx |-> -1]

IdxStep(i) == [key |-> <<>>, idx |-> i]

RECURSIVE KeyLocs(_)
KeyLocs(v) ==
    IF v.t = "dict"
    THEN UNION {{<<KeyStep(v.keys[j])>>}
                  \cup {<<KeyStep(v.keys[j])>> \o l : l \in KeyLocs(v.items[j])} :
                j \in 1..Len(v.keys)}
    ELSE IF v.t = "list"
         THEN UNION {{<<IdxStep(j - 1)>> \o l : l \in KeyLocs(v.items[j])} :
                     j \in 1..Min(3, Len(v.items))}
         ELSE {}

\* the value at a location
RECURSIVE ValueAt(_, _)
ValueAt(v, loc) ==
    IF loc = <<>> THEN v
    ELSE IF loc[1].idx >= 0 THEN ValueAt(v.items[loc[1].idx + 1], Tail(loc))
    ELSE ValueAt(DictItem(v, loc[1].key), Tail(loc))

\* keys joined by '.', sampled indices appended as '[i]'
RECURSIVE JoinedPath(_)
JoinedPath(loc) ==
    IF loc = <<>> THEN <<>>
    ELSE LET pre == JoinedPath(SubSeq(loc, 1, Len(loc) - 1))
             st == loc[Len(loc)]
         IN IF st.idx >= 0 THEN pre \o <<"[">> \o IntToStr(st.idx) \o <<"]">>
            ELSE IF Len(loc) = 1 THEN st.key
            ELSE pre \o <<".">> \o st.key

\* the path string the traversal gives a location: the separator is written
\* only after a non-empty prefix
RECURSIVE WalkedPath(_)
WalkedPath(loc) ==
    IF loc = <<>> THEN <<>>
    ELSE LET pre == WalkedPath(SubSeq(loc, 1, Len(loc) - 1))
             st == loc[Len(loc)]
         IN IF st.idx >= 0 THEN pre \o <<"[">> \o IntToStr(st.idx) \o <<"]">>
            ELSE IF pre = <<>> THEN st.key
            ELSE pre \o <<".">> \o st.key

\* every object key is non-empty and holds neither '.' nor '['
RECURSIVE CleanKeys(_)
CleanKeys(v) ==
    /\ v.t = "dict" =>
          \A j \in 1..Len(v.keys) :
             /\ v.keys[j] /= <<>>
             /\ \A c \in 1..Len(v.keys[j]) : v.keys[j][c] \notin {".", "["}
    /\ v.t \in {"dict", "list"} => \A j \in 1..Len(v.items) : CleanKeys(v.items[j])

\* C3 as stated: every reachable key location has the entry of its path, and
\* no two locations share an entry, so every per-file count is 1.
C3_Original ==
    pc = "returned" =>
      /\ \A l \in KeyLocs(data) : HasKey(file_key_structure, WalkedPath(l))
      /\ \A i \in 1..Len(file_key_structure) : file_key_structure[i].count = 1

\* C3 amended: the accumulator holds exactly the path strings of the reachable
\* key locations, each counted once per location that has this path string;
\* when every key is non-empty and free of '.' and '[', distinct locations
\* have distinct paths and every count is 1.
C3_OneEntryPerKeyLocation ==
    pc = "returned" =>
      /\ Paths(file_key_structure) = {WalkedPath(l) : l \in KeyLocs(data)}
      /\ \A i \in 1..Len(file_key_structure) :
            file_key_structure[i].count =
              Cardinality({l \in KeyLocs(data) : WalkedPath(l) = file_key_structure[i].path})
      /\ \A i, j \in 1..Len(file_key_structure) :
            file_key_structure[i].path = file_key_structure[j].path => i = j
      /\ CleanKeys(data) =>
            /\ \A i \in 1..Len(file_key_structure) : file_key_structure[i].count = 1
            /\ \A l \in KeyLocs(data) : Count(file_key_structure, JoinedPath(l)) = 1

C3_Witness ==
    /\ pc = "returned"
    /\ CleanKeys(data)
    /\ \E l \in KeyLocs(data) : Len(l) >= 3 /\ Count(file_key_structure, JoinedPath(l)) = 1

\* ------------------------------------------------------------------------
\* Claims about the runs (Spec, SpecSamples, SpecRerun)
\* ------------------------------------------------------------------------
\* what the i-th file of a known directory holds
FileData(i) == CHOOSE c \in files[i].contents : TRUE

AllPaths(d1, d2) == Paths(d1) \cup Paths(d2)

\* C4: the run-wide count of a path never decreases, a file adds at most 1 to
\* it however often the path occurred in the file, and no count exceeds the
\* number of files processed.
C4_CountsPerFile ==
    /\ [][script = "analyze" =>
            \A p \in AllPaths(all_key_structures, all_key_structures') :
               /\ Count(all_key_structures', p) >= Count(all_key_structures, p)
               /\ Count(all_key_structures', p) <= Count(all_key_structures, p) + 1]_vars
    /\ [](script = "analyze" =>
            \A p \in Paths(all_key_structures) : Count(all_key_structures, p) <= processed)

C4_Witness ==
    /\ script = "analyze" /\ processed >= 2
    /\ \E p \in Paths(file_key_structure) :
          /\ Count(file_key_structure, p) = 2
          /\ Count(all_key_structures, p) = 1

\* C5: a file that cannot be read or parsed is not fatal: the processed total
\* and every accumulator stay as they are, a warning names the file, and the
\* loop goes on to the remaining files until all were taken.
C5_ParseFailureSkipped ==
    /\ [][(pc = "loop" /\ idx' = idx + 1 /\ FileData(idx').t = "bad") =>
            /\ processed' = processed
            /\ all_key_structures' = all_key_structures
            /\ sample_values' = sample_values
            /\ file_examples' = file_examples
            /\ counts' = counts
            /\ clinical_group_entries' = clinical_group_entries
            /\ log' = Append(log, files[idx'].path)
            /\ pc' = "loop"
            /\ exit_code' = -1]_vars
    /\ [](pc = "done" => idx = Len(files))
    /\ [](\A i \in 1..idx : FileData(i).t = "bad" => Member(files[i].path, log))
    /\ [](processed + Cardinality({i \in 1..idx : FileData(i).t = "bad"}) <= idx)

C5_Witness ==
    /\ pc = "done" /\ Len(files) >= 2 /\ processed >= 1
    /\ FileData(1).t = "bad"
    /\ Member(files[1].path, log)
    /\ FileData(Len(files)).t /= "bad"
    /\ processed = Len(files) - Len(log)

\* a file the clinical-group extractor is to give a row: DisorderType.value is
\* "Clinical group", ORPHAcode is a number and Label a non-empty string
ValidText(v) == v.t = "str" /\ v.s /= <<>>

\* int() takes the code: a number, or a string of digits
ValidCode(v) == (v.t = "int" /\ v.n /= 0) \/ (ValidText(v) /\ AllDigits(v.s))

FieldOf(doc, key) == py_get(orphapacket_of(doc).val, key, JNull).val

Qualifies(doc) ==
    /\ doc.t = "dict"
    /\ ~disorder_type_of(doc).raised
    /\ disorder_type_of(doc).val = ClinicalGroup
    /\ ValidCode(FieldOf(doc, KORPHAcode))
    /\ ValidText(FieldOf(doc, KLabel))

RowOf(doc) == <<PyStr(FieldOf(doc, KORPHAcode)), FieldOf(doc, KLabel).s>>

\* the lines of a CSV file below its header
DataRows(file) == IF Len(file.lines) = 0 THEN <<>> ELSE Tail(file.lines)

\* C6: the clinical-group extractor writes one row per qualifying file, no
\* row for any other file, in ascending numeric ORPHAcode order.
C6_OneRowPerClinicalGroupFile ==
    (script = "clinical" /\ pc = "done") =>
      LET rows == DataRows(out.clinical)
          good == {i \in 1..Len(files) : Qualifies(FileData(i))}
      IN /\ Len(rows) = Cardinality(good)
         /\ \A i \in good :
               Cardinality({j \in 1..Len(rows) : rows[j] = RowOf(FileData(i))})
                 = Cardinality({k \in good : RowOf(FileData(k)) = RowOf(FileData(i))})
         /\ \A j, k \in 1..Len(rows) :
               j < k => ParseDigits(rows[j][1]) <= ParseDigits(rows[k][1])

NoResults ==
    IF script = "analyze" THEN Len(all_key_structures) = 0
    ELSE IF script = "clinical" THEN Len(clinical_group_entries) = 0
    ELSE Len(counts) = 0

\* C7 as stated: each script ends with exit code 1 when its run found no
\* matching results and with 0 in every other run.
C7_Original == pc = "done" => (exit_code = IF NoResults THEN 1 ELSE 0)

\* C7 amended: make_disorder_type_counts.py ends with 1 when it found no
\* DisorderType value or when a counted value is no string (write_csv raises),
\* and with 0 otherwise; extract_clinical_group_ids.py ends with 1 when it
\* found no entry or when int() rejects the ORPHAcode of an entry (write_csv
\* raises), and with 0 otherwise; analyze_json_structure.py ends with 0 in
\* every run, also without any key path or directory.
C7_ExitCodes ==
    pc = "done" =>
      /\ script = "analyze" => exit_code = 0
      /\ script = "counts" =>
            exit_code = (IF Len(counts) = 0 THEN 1
                         ELSE IF \E i \in 1..idx :
                                   /\ FileData(i).t = "dict"
                                   /\ ~disorder_type_of(FileData(i)).raised
                                   /\ disorder_type_of(FileData(i)).val.t = "int"
                              THEN 1 ELSE 0)
      /\ script = "clinical" =>
            exit_code = (IF Len(clinical_group_entries) = 0 THEN 1
                         ELSE IF \E i \in 1..Len(clinical_group_entries) :
                                   ~ValidCode(clinical_group_entries[i].ORPHAcode)
                              THEN 1 ELSE 0)

C7_Witness ==
    /\ pc = "done" /\ script = "counts" /\ processed >= 2
    /\ Len(counts) = 0
    /\ exit_code = 1

Written ==
    IF script = "analyze" THEN {"analysis", "summary"}
    ELSE IF script = "clinical"
         THEN (IF Len(clinical_group_entries) = 0 THEN {} ELSE {"clinical"})
    ELSE IF Len(counts) = 0 \/ exit_code /= 0 THEN {} ELSE {"counts_csv", "counts_md"}

LeafTextsAt(doc, p) ==
    {PyStr(ValueAt(doc, l)) :
       l \in {m \in KeyLocs(doc) : WalkedPath(m) = p /\ IsPrimitive(ValueAt(doc, m))}}

\* C9: every stored sample of a path is the text of a primitive located at
\* that path in one of the processed files.
C9_SamplesComeFromTheirPath ==
    script = "analyze" =>
      \A p \in DOMAIN sample_values : \A k \in 1..Len(sample_values[p]) :
         \E i \in 1..idx :
            /\ FileData(i).t /= "bad"
            /\ sample_values[p][k] \in LeafTextsAt(FileData(i), p)

BaseNameOfFile(i) == <<"O", "R", "P", "H", "A", "p", "a", "c", "k", "e", "t", "_">> \o IntToStr(i) \o <<".", "j", "s", "o", "n">>

IsPrefix(s, t) == Len(s) <= Len(t) /\ SubSeq(t, 1, Len(s)) = s

\* C10: a sample list holds at most 5 texts, pairwise distinct, and only grows
\* at its end; an example list holds at most 3 file names, those of the first
\* files in which the path was found.
C10_SampleAndExampleCaps ==
    /\ [](\A p \in DOMAIN sample_values :
            /\ Len(sample_values[p]) <= 5
            /\ \A j, k \in 1..Len(sample_values[p]) :
                  sample_values[p][j] = sample_values[p][k] => j = k)
    /\ [](\A p \in DOMAIN file_examples :
            Len(file_examples[p]) = Min(3, Count(all_key_structures, p)))
    /\ [][\A p \in DOMAIN sample_values' :
            /\ IsPrefix(Lookup(sample_values, p), sample_values'[p])
            /\ Len(sample_values'[p]) <= Len(Lookup(sample_values, p)) + 1]_vars
    /\ [][\A p \in DOMAIN file_examples' :
            file_examples'[p] =
              IF Count(all_key_structures', p) > Count(all_key_structures, p)
                 /\ Len(Lookup(file_examples, p)) < 3
              THEN Append(Lookup(file_examples, p), BaseNameOfFile(idx'))
              ELSE Lookup(file_examples, p)]_vars

C10_Witness ==
    /\ Len(Lookup(sample_values, PA)) = 5
    /\ Count(all_key_structures, PA) >= 6
    /\ Lookup(file_examples, PA) = <<BaseNameOfFile(1), BaseNameOfFile(2), BaseNameOfFile(3)>>

====
